---- MODULE Spec2Model ----
(***************************************************************************)
(* AntiHook backend: URL normaliser, ConfigStore (atomic persistence of    *)
(* config.json) and HealthProbe (two-candidate health check).              *)
(* Strings are sequences of one-character strings.                         *)
(***************************************************************************)
EXTENDS Integers, Sequences, FiniteSets, TLC

VARIABLES
    nraw,       \* normaliser: the raw input
    npc,        \* normaliser: "start", "once", "twice", "rejected"
    nres,       \* normaliser: result of normalize_base_url(nraw)
    nres2,      \* normaliser: result of normalize_base_url on nres
    dirExists,  \* filesystem: {home}/.config/antihook exists
    cfg,        \* filesystem: content of config.json, or NoFile
    tmp,        \* filesystem: content of config.json.tmp, or NoFile
    pc,         \* per process: position inside save_config / load_config
    arg,        \* per process: kiro_server_url argument of save_config
    normalized, \* per process: local `normalized` of save_config
    json,       \* per process: local `json` of save_config
    off,        \* per process: bytes of `json` already written to the temp file
    fd,         \* per process: the name the open temp-file handle's inode has now
    pre,        \* per process: config.json as it was when the call began
    hist,       \* the last completed call and a summary of the one before it
    faults,     \* the environment may make any filesystem call of save_config fail
    limited,    \* each process begins at most MaxCalls calls
    begun,      \* per process: calls begun so far (counted when limited)
    hpc,        \* check_health: position inside the call
    harg,       \* check_health: the base_url argument
    base,       \* check_health: local `base`
    idx,        \* check_health: loop index
    last,       \* check_health: local `last`
    reqs,       \* the GET requests issued so far, in order, with their outcomes
    hret        \* check_health: the returned value

nvars == <<nraw, npc, nres, nres2>>
fsvars == <<dirExists, cfg, tmp>>
cvars == <<dirExists, cfg, tmp, pc, arg, normalized, json, off, fd, pre, hist,
           faults, limited, begun>>

hvars == <<hpc, harg, base, idx, last, reqs, hret>>

vars == <<nraw, npc, nres, nres2, dirExists, cfg, tmp, pc, arg, normalized, json,
          off, fd, pre, hist, faults, limited, begun,
          hpc, harg, base, idx, last, reqs, hret>>

----------------------------------------------------------------------------
(* Bounds *)

MaxTail == 3
WriteChunks == 2
MaxCalls == 1

----------------------------------------------------------------------------
(* Strings *)

None == "None"

SP == " "
BS == "\\"
QT == "\""
NL == "\n"
NUL == "NUL"

HTTP == <<"h", "t", "t", "p">>
HTTPS == <<"h", "t", "t", "p", "s">>
FTP == <<"f", "t", "p">>
MAILTO == <<"m", "a", "i", "l", "t", "o">>

SeqsUpTo(S, n) == UNION {[1..k -> S] : k \in 0..n}

Front(s) == SubSeq(s, 1, Len(s) - 1)
LastOf(s) == s[Len(s)]

\* char::is_whitespace
IsWhitespace(c) == c \in {" ", "\t", "\n", "\r"}

RECURSIVE trim_start(_)
trim_start(s) ==
    IF s # <<>> /\ IsWhitespace(Head(s)) THEN trim_start(Tail(s)) ELSE s

RECURSIVE trim_end(_)
trim_end(s) ==
    IF s # <<>> /\ IsWhitespace(LastOf(s)) THEN trim_end(Front(s)) ELSE s

\* str::trim
trim(s) == trim_end(trim_start(s))

\* str::trim_end_matches(c)
RECURSIVE trim_end_matches(_, _)
trim_end_matches(s, c) ==
    IF s # <<>> /\ LastOf(s) = c THEN trim_end_matches(Front(s), c) ELSE s

----------------------------------------------------------------------------
(* url::Url::parse, as far as normalize_base_url observes it: success or   *)
(* failure, the scheme and the presence of a host.                         *)

AsciiAlpha == {"a", "b", "f", "h", "i", "l", "m", "o", "p", "s", "t"}
SchemeChars == AsciiAlpha \cup {"+", "-", "."}
SpecialSchemes == {HTTP, HTTPS, FTP}
C0OrSpace == {" ", "\t", "\n", "\r"}
ForbiddenHostChars == {" ", "#", "/", ":", "<", ">", "?", "@", "[", "\\", "]", "^", "|"}

RECURSIVE StripLeft(_, _)
StripLeft(s, cs) ==
    IF s # <<>> /\ Head(s) \in cs THEN StripLeft(Tail(s), cs) ELSE s

RECURSIVE StripRight(_, _)
StripRight(s, cs) ==
    IF s # <<>> /\ LastOf(s) \in cs THEN StripRight(Front(s), cs) ELSE s

RECURSIVE TakeUntil(_, _)
TakeUntil(s, cs) ==
    IF s = <<>> \/ Head(s) \in cs THEN <<>>
    ELSE <<Head(s)>> \o TakeUntil(Tail(s), cs)

ParseErr == [ok |-> FALSE, scheme |-> <<>>, hasHost |-> FALSE]

UrlParse(input) ==
    LET s == StripRight(StripLeft(input, C0OrSpace), C0OrSpace)
        scheme == TakeUntil(s, {":"})
        hasScheme == /\ Len(scheme) < Len(s)
                     /\ scheme # <<>>
                     /\ Head(scheme) \in AsciiAlpha
                     /\ \A i \in 1..Len(scheme) : scheme[i] \in SchemeChars
        rest == SubSeq(s, Len(scheme) + 2, Len(s))
        authority == StripLeft(rest, {"/", "\\"})
        host == TakeUntil(authority, {"/", "\\", "?", "#"})
    IN  IF ~hasScheme THEN ParseErr
        ELSE IF scheme \in SpecialSchemes
        THEN IF host = <<>> THEN ParseErr
             ELSE IF \E i \in 1..Len(host) : host[i] \in ForbiddenHostChars
             THEN ParseErr
             ELSE [ok |-> TRUE, scheme |-> scheme, hasHost |-> TRUE]
        ELSE [ok |-> TRUE, scheme |-> scheme, hasHost |-> FALSE]

----------------------------------------------------------------------------
(* config.rs: normalize_base_url *)

\* Result<String, _> and Result<Option<AppConfig>, _>: `some` tells Some from None
Ok(v) == [ok |-> TRUE, some |-> TRUE, val |-> v, err |-> None]
OkNone == [ok |-> TRUE, some |-> FALSE, val |-> <<>>, err |-> None]
Err(e) == [ok |-> FALSE, some |-> FALSE, val |-> <<>>, err |-> e]

normalize_base_url(raw) ==
    LET trimmed == trim_end_matches(trim(raw), "/")
        parsed == UrlParse(trimmed)
    IN  IF trimmed = <<>> THEN Err("invalid url: empty url")
        ELSE IF ~parsed.ok THEN Err("invalid url: parse error")
        ELSE IF parsed.scheme \notin {HTTP, HTTPS}
        THEN Err("invalid url: unsupported scheme")
        ELSE IF ~parsed.hasHost THEN Err("invalid url: missing host")
        ELSE Ok(trimmed)

NoResult == Err("not run")

\* the normaliser is not being exercised
NormIdle ==
    /\ nraw = <<>>
    /\ npc = "off"
    /\ nres = NoResult
    /\ nres2 = NoResult

----------------------------------------------------------------------------
(* serde_json: to_string_pretty of AppConfig and from_slice::<AppConfig>   *)

KEY == <<"k", "i", "r", "o", "_", "s", "e", "r", "v", "e", "r", "_", "u", "r", "l">>

JsonWs == {" ", "\t", "\n", "\r"}

\* Escape without the escaping of the backslash
RECURSIVE Escape_NoBackslash(_)
Escape_NoBackslash(s) ==
    IF s = <<>> THEN <<>>
    ELSE (CASE Head(s) = QT -> <<BS, QT>>
            [] Head(s) = NL -> <<BS, "n">>
            [] OTHER -> <<Head(s)>>) \o Escape_NoBackslash(Tail(s))

\* serde_json's string escaping
RECURSIVE Escape(_)
Escape(s) ==
    IF s = <<>> THEN <<>>
    ELSE (CASE Head(s) = QT -> <<BS, QT>>
            [] Head(s) = BS -> <<BS, BS>>
            [] Head(s) = NL -> <<BS, "n">>
            [] Head(s) = "\t" -> <<BS, "t">>
            [] Head(s) = "\r" -> <<BS, "r">>
            [] OTHER -> <<Head(s)>>) \o Escape(Tail(s))

\* serde_json::to_string_pretty(&cfg)
to_string_pretty(url) ==
    <<"{", NL, SP, SP, QT>> \o KEY \o <<QT, ":", SP, QT>> \o Escape(url)
        \o <<QT, NL, "}">>

\* json = to_string_pretty(&cfg) followed by "\n"
Serialize(url) == to_string_pretty(url) \o <<NL>>

StrFail == [ok |-> FALSE, val |-> <<>>, rest |-> <<>>]

Unescaped(c) ==
    CASE c = "n" -> NL
      [] c = "t" -> "\t"
      [] c = "r" -> "\r"
      [] OTHER -> c

\* a JSON string, read from just after its opening quote
RECURSIVE ParseString(_)
ParseString(s) ==
    IF s = <<>> THEN StrFail
    ELSE IF Head(s) = QT THEN [ok |-> TRUE, val |-> <<>>, rest |-> Tail(s)]
    ELSE IF Head(s) \in {NL, "\t", "\r", NUL} THEN StrFail
    ELSE IF Head(s) = BS
    THEN IF Len(s) < 2 \/ s[2] \notin {QT, BS, "/", "n", "t", "r"} THEN StrFail
         ELSE LET r == ParseString(SubSeq(s, 3, Len(s)))
              IN  IF r.ok THEN [r EXCEPT !.val = <<Unescaped(s[2])>> \o r.val]
                  ELSE StrFail
    ELSE LET r == ParseString(Tail(s))
         IN  IF r.ok THEN [r EXCEPT !.val = <<Head(s)>> \o r.val] ELSE StrFail

SkipWs(s) == StripLeft(s, JsonWs)
StartsWith(s, c) == s # <<>> /\ Head(s) = c

\* serde_json::from_slice::<AppConfig>(&data), for objects of one member
from_slice(data) ==
    LET s1 == SkipWs(data)
        ok1 == StartsWith(s1, "{")
        s2 == SkipWs(Tail(s1))
        ok2 == ok1 /\ StartsWith(s2, QT)
        key == ParseString(Tail(s2))
        ok3 == ok2 /\ key.ok
        s3 == SkipWs(key.rest)
        ok4 == ok3 /\ StartsWith(s3, ":")
        s4 == SkipWs(Tail(s3))
        ok5 == ok4 /\ StartsWith(s4, QT)
        val == ParseString(Tail(s4))
        ok6 == ok5 /\ val.ok
        s5 == SkipWs(val.rest)
        ok7 == ok6 /\ StartsWith(s5, "}")
        s6 == SkipWs(Tail(s5))
        ok8 == ok7 /\ s6 = <<>>
    IN  IF ok8 /\ key.val = KEY THEN Ok(val.val) ELSE Err("json error")

----------------------------------------------------------------------------
(* Inputs of the normaliser *)

Leads == {<<>>, <<" ">>}
Bases == {<<>>, <<"a">>,
          HTTP \o <<":", "/", "/">>,
          HTTP \o <<":", "/", "/", "a">>,
          HTTPS \o <<":", "/", "/", "a">>,
          FTP \o <<":", "/", "/", "a">>,
          MAILTO \o <<":", "a">>}
TailChars == {" ", "/", "b", "\\"}

RawUrls == {l \o b \o t : l \in Leads, b \in Bases, t \in SeqsUpTo(TailChars, MaxTail)}

----------------------------------------------------------------------------
(* health.rs: fetch_health and check_health *)

MaxElapsed == 1

API_HEALTH == <<"/", "a", "p", "i", "/", "h", "e", "a", "l", "t", "h">>
BACKEND_API_HEALTH == <<"/", "b", "a", "c", "k", "e", "n", "d">> \o API_HEALTH

\* Option<T>: the empty sequence is None, <<x>> is Some(x)
NoneOpt == <<>>
Some(x) == <<x>>

\* the base_url arguments check_health is called with
HealthBaseUrls ==
    {HTTP \o <<":", "/", "/", "a">>,
     <<" ">> \o HTTPS \o <<":", "/", "/", "a", "/">>,
     FTP \o <<":", "/", "/", "a">>,
     <<" ">>}

\* what the server and the network do to one GET
StatusCodes == {200, 299, 300, 401, 404, 500}
BodyTexts == {"{\"status\":\"ok\"}", "OK", ""}
Responses ==
    [kind : {"response"}, status : StatusCodes, text : BodyTexts, textErr : {FALSE}]
    \cup [kind : {"response"}, status : StatusCodes, text : {""}, textErr : {TRUE}]
SendError == [kind |-> "send error", status |-> 0, text |-> "", textErr |-> FALSE]
Outcomes == Responses \cup {SendError}

\* StatusCode::is_success
is_success(status) == 200 <= status /\ status < 300

\* serde_json::from_str::<serde_json::Value>(&text).ok()
from_str(text) == IF text = "{\"status\":\"ok\"}" THEN Some(text) ELSE NoneOpt

\* fetch_health that reports a failure status as an error message
fetch_health_ErrOnStatus(request_url, out, elapsed) ==
    IF out.kind = "send error"
    THEN [request_url |-> request_url,
          ok |-> FALSE,
          status_code |-> NoneOpt,
          elapsed_ms |-> elapsed,
          payload |-> NoneOpt,
          error |-> Some("error sending request")]
    ELSE LET text == IF out.textErr THEN "" ELSE out.text
         IN  [request_url |-> request_url,
              ok |-> is_success(out.status),
              status_code |-> Some(out.status),
              elapsed_ms |-> elapsed,
              payload |-> from_str(text),
              error |-> IF is_success(out.status) THEN NoneOpt
                        ELSE Some("http error")]

\* fetch_health(client, request_url), given what the network did and the time it took
fetch_health(request_url, out, elapsed) ==
    IF out.kind = "send error"
    THEN [request_url |-> request_url,
          ok |-> FALSE,
          status_code |-> NoneOpt,
          elapsed_ms |-> elapsed,
          payload |-> NoneOpt,
          error |-> Some("error sending request")]
    ELSE LET text == IF out.textErr THEN "" ELSE out.text
         IN  [request_url |-> request_url,
              ok |-> is_success(out.status),
              status_code |-> Some(out.status),
              elapsed_ms |-> elapsed,
              payload |-> from_str(text),
              error |-> NoneOpt]

\* candidates in the wrong order
candidates_Swapped(b) == <<b \o BACKEND_API_HEALTH, b \o API_HEALTH>>

\* check_health, lines 63-66
candidates(b) == <<b \o API_HEALTH, b \o BACKEND_API_HEALTH>>
candidate_count == 2

\* should_try_next that goes on after any status
should_try_next_AnyStatus(i, result) ==
    i + 1 < candidate_count

\* check_health, lines 73-74
should_try_next(i, result) ==
    /\ i + 1 < candidate_count
    /\ (result.status_code = Some(404) \/ result.status_code = NoneOpt)

\* check_health, lines 87-94: the result when `last` is None
Fallback(b) ==
    [request_url |-> b \o API_HEALTH,
     ok |-> FALSE,
     status_code |-> NoneOpt,
     elapsed_ms |-> 0,
     payload |-> NoneOpt,
     error |-> Some("unknown error")]

NoProbe == Fallback(<<>>)

\* Result<HealthCheckResult, String>
BuilderError == "builder error"
HOk(r) == [ok |-> TRUE, val |-> r, err |-> None]
HErr(e) == [ok |-> FALSE, val |-> NoProbe, err |-> e]

HealthIdle ==
    /\ hpc = "off"
    /\ harg = <<>>
    /\ base = <<>>
    /\ idx = 0
    /\ last = NoneOpt
    /\ reqs = <<>>
    /\ hret = HErr("not run")

HealthInit ==
    /\ hpc = "idle"
    /\ harg \in HealthBaseUrls
    /\ base = <<>>
    /\ idx = 0
    /\ last = NoneOpt
    /\ reqs = <<>>
    /\ hret = HErr("not run")

\* check_health, lines 56-69: normalise, build the client and the candidates
HealthBegin ==
    LET n == normalize_base_url(harg)
    IN  /\ hpc = "idle"
        /\ IF n.ok
           THEN \/ /\ base' = n.val
                   /\ hpc' = "send"
                   /\ UNCHANGED hret
                \* lines 58-61: Client::builder()...build() fails
                \/ /\ hret' = HErr(BuilderError)
                   /\ hpc' = "done"
                   /\ UNCHANGED base
           ELSE /\ hret' = HErr(n.err)
                /\ hpc' = "done"
                /\ UNCHANGED base
        /\ UNCHANGED <<harg, idx, last, reqs>>
        /\ UNCHANGED <<nvars, cvars>>

\* fetch_health, line 22: client.get(&request_url).send() is issued
ProbeSend ==
    /\ hpc = "send"
    /\ idx < candidate_count
    /\ reqs' = Append(reqs, [url |-> candidates(base)[idx + 1], done |-> FALSE,
                             out |-> SendError, result |-> NoProbe])
    /\ hpc' = "await"
    /\ UNCHANGED <<harg, base, idx, last, hret>>
    /\ UNCHANGED <<nvars, cvars>>

\* ProbeComplete without the early return on success: a success is recorded
\* in `last` and the loop goes on while candidates remain
ProbeComplete_NoStop(out, elapsed) ==
    LET url == candidates(base)[idx + 1]
        result == fetch_health(url, out, elapsed)
    IN  /\ hpc = "await"
        /\ reqs' = [reqs EXCEPT ![Len(reqs)] =
                        [url |-> url, done |-> TRUE, out |-> out, result |-> result]]
        /\ last' = Some(result)
        /\ UNCHANGED hret
        /\ IF ~result.ok /\ ~should_try_next(idx, result)
           THEN hpc' = "after loop" /\ UNCHANGED idx
           ELSE /\ idx' = idx + 1
                /\ hpc' = IF idx + 1 < candidate_count THEN "send"
                          ELSE "after loop"
        /\ UNCHANGED <<harg, base>>
        /\ UNCHANGED <<nvars, cvars>>

\* ProbeComplete that raises a failed send as an error of check_health
ProbeComplete_RaiseTransport(out, elapsed) ==
    LET url == candidates(base)[idx + 1]
        result == fetch_health(url, out, elapsed)
        try_next == should_try_next(idx, result)
    IN  /\ hpc = "await"
        /\ reqs' = [reqs EXCEPT ![Len(reqs)] =
                        [url |-> url, done |-> TRUE, out |-> out, result |-> result]]
        /\ IF out.kind = "send error"
           THEN /\ hret' = HErr("error sending request")
                /\ hpc' = "done"
                /\ UNCHANGED <<last, idx>>
           ELSE IF result.ok
           THEN /\ hret' = HOk(result)
                /\ hpc' = "done"
                /\ UNCHANGED <<last, idx>>
           ELSE /\ last' = Some(result)
                /\ UNCHANGED hret
                /\ IF ~try_next
                   THEN hpc' = "after loop" /\ UNCHANGED idx
                   ELSE /\ idx' = idx + 1
                        /\ hpc' = IF idx + 1 < candidate_count THEN "send"
                                  ELSE "after loop"
        /\ UNCHANGED <<harg, base>>
        /\ UNCHANGED <<nvars, cvars>>

\* ProbeComplete that records `last` only after the break test
ProbeComplete_LateRecord(out, elapsed) ==
    LET url == candidates(base)[idx + 1]
        result == fetch_health(url, out, elapsed)
        try_next == should_try_next(idx, result)
    IN  /\ hpc = "await"
        /\ reqs' = [reqs EXCEPT ![Len(reqs)] =
                        [url |-> url, done |-> TRUE, out |-> out, result |-> result]]
        /\ IF result.ok
           THEN /\ hret' = HOk(result)
                /\ hpc' = "done"
                /\ UNCHANGED <<last, idx>>
           ELSE /\ UNCHANGED hret
                /\ IF ~try_next
                   THEN hpc' = "after loop" /\ UNCHANGED <<idx, last>>
                   ELSE /\ last' = Some(result)
                        /\ idx' = idx + 1
                        /\ hpc' = IF idx + 1 < candidate_count THEN "send"
                                  ELSE "after loop"
        /\ UNCHANGED <<harg, base>>
        /\ UNCHANGED <<nvars, cvars>>

\* fetch_health, lines 22-49, completes, and check_health, lines 73-84,
\* decides: return, break or go on with the next candidate
ProbeComplete(out, elapsed) ==
    LET url == candidates(base)[idx + 1]
        result == fetch_health(url, out, elapsed)
        try_next == should_try_next(idx, result)
    IN  /\ hpc = "await"
        /\ reqs' = [reqs EXCEPT ![Len(reqs)] =
                        [url |-> url, done |-> TRUE, out |-> out, result |-> result]]
        /\ IF result.ok
           THEN /\ hret' = HOk(result)
                /\ hpc' = "done"
                /\ UNCHANGED <<last, idx>>
           ELSE /\ last' = Some(result)
                /\ UNCHANGED hret
                /\ IF ~try_next
                   THEN hpc' = "after loop" /\ UNCHANGED idx
                   ELSE /\ idx' = idx + 1
                        /\ hpc' = IF idx + 1 < candidate_count THEN "send"
                                  ELSE "after loop"
        /\ UNCHANGED <<harg, base>>
        /\ UNCHANGED <<nvars, cvars>>

\* HealthReturn that returns the first recorded result instead of the last
HealthReturn_First ==
    /\ hpc = "after loop"
    /\ hret' = HOk(IF reqs # <<>> THEN reqs[1].result ELSE Fallback(base))
    /\ hpc' = "done"
    /\ UNCHANGED <<harg, base, idx, last, reqs>>
    /\ UNCHANGED <<nvars, cvars>>

\* check_health, lines 87-94: Ok(last.unwrap_or(...))
HealthReturn ==
    /\ hpc = "after loop"
    /\ hret' = HOk(IF last # NoneOpt THEN last[1] ELSE Fallback(base))
    /\ hpc' = "done"
    /\ UNCHANGED <<harg, base, idx, last, reqs>>
    /\ UNCHANGED <<nvars, cvars>>

HealthNext ==
    \/ HealthBegin
    \/ ProbeSend
    \/ \E out \in Outcomes, elapsed \in 0..MaxElapsed : ProbeComplete(out, elapsed)
    \/ HealthReturn

----------------------------------------------------------------------------
(* config.rs: the filesystem, save_config and load_config *)

Procs == {1, 2}
SeqProcs == {1}

NoFile == [exists |-> FALSE, data |-> <<>>]
File(d) == [exists |-> TRUE, data |-> d]

Min(a, b) == IF a < b THEN a ELSE b

\* the arguments save_config is called with
ConfigRawUrls ==
    {<<" ", " ">>,
     HTTP \o <<":", "/", "/", "a">>,
     <<" ">> \o HTTPS \o <<":", "/", "/", "a", "/", " ">>,
     HTTP \o <<":", "/", "/", "a", "/", "\\", QT, "b">>,
     FTP \o <<":", "/", "/", "a">>}

ValidUrls == {normalize_base_url(r).val : r \in {x \in ConfigRawUrls : normalize_base_url(x).ok}}

\* a completed call: who, which operation, its argument, what it returned;
\* for a crash, `at` is the step the process was about to take; `prev` is
\* the operation and the return value of the call completed before it
NoCall == [op |-> "none", ret |-> NoResult]
Call(p, op, a, r, at) ==
    [p |-> p, op |-> op, arg |-> a, ret |-> r, at |-> at,
     prev |-> IF hist = <<>> THEN NoCall
              ELSE [op |-> hist[1].op, ret |-> hist[1].ret]]

Record(c) == <<c>>

\* the bytes one write(2) call of write_all transfers
ChunkLen(data) == (Len(data) + WriteChunks - 1) \div WriteChunks
NextChunk(data, o) == SubSeq(data, o + 1, Min(o + ChunkLen(data), Len(data)))

\* pwrite of chunk at offset o into a file's data
WriteAt(data, o, chunk) ==
    LET padded == data \o [i \in 1..(o - Len(data)) |-> NUL]
    IN  SubSeq(padded, 1, o) \o chunk
            \o SubSeq(padded, o + Len(chunk) + 1, Len(padded))

\* contents of config.json that are not a configuration: an object without
\* the field, and a truncated configuration
MalformedFiles ==
    {<<"{", "}", NL>>,
     SubSeq(Serialize(HTTP \o <<":", "/", "/", "a">>), 1, 30)}

ConfigIdle ==
    /\ pc = [p \in Procs |-> "idle"]
    /\ arg = [p \in Procs |-> <<>>]
    /\ normalized = [p \in Procs |-> <<>>]
    /\ json = [p \in Procs |-> <<>>]
    /\ off = [p \in Procs |-> 0]
    /\ fd = [p \in Procs |-> "none"]
    /\ hist = <<>>
    /\ begun = [p \in Procs |-> 0]

\* the ConfigStore is not being exercised
ConfigOff ==
    /\ ConfigIdle
    /\ faults = FALSE
    /\ limited = FALSE
    /\ dirExists = FALSE
    /\ cfg = NoFile
    /\ tmp = NoFile
    /\ pre = [p \in Procs |-> NoFile]

ConfigInit ==
    /\ ConfigIdle
    /\ faults = TRUE
    /\ limited = FALSE
    /\ dirExists \in BOOLEAN
    /\ tmp = NoFile
    /\ cfg \in {NoFile} \cup (IF dirExists
                            THEN {File(Serialize(u)) : u \in ValidUrls}
                                    \cup {File(d) : d \in MalformedFiles}
                            ELSE {})
    /\ pre = [p \in Procs |-> cfg]

\* p may begin a call
Begin(p) ==
    /\ limited => begun[p] < MaxCalls
    /\ begun' = IF limited THEN [begun EXCEPT ![p] = @ + 1] ELSE begun

\* the call of p goes on to step `next`
Continue(p, next) ==
    /\ pc' = [pc EXCEPT ![p] = next]
    /\ UNCHANGED <<arg, normalized, json, hist>>

\* the call of p ends with r (`at` names the step a crash interrupted);
\* its locals go out of scope
Finish(p, op, r, at) ==
    /\ pc' = [pc EXCEPT ![p] = "idle"]
    /\ hist' = Record(Call(p, op, arg[p], r, at))
    /\ arg' = [arg EXCEPT ![p] = <<>>]
    /\ normalized' = [normalized EXCEPT ![p] = <<>>]
    /\ json' = [json EXCEPT ![p] = <<>>]

Return(p, op, r) == Finish(p, op, r, "")

\* SaveBegin that creates the parent directory before it validates the URL
SaveBegin_DirFirst(p, raw) ==
    LET n == normalize_base_url(raw)
    IN  /\ pc[p] = "idle"
        /\ Begin(p)
        /\ pre' = [pre EXCEPT ![p] = cfg]
        /\ dirExists' = TRUE
        /\ IF n.ok
           THEN /\ arg' = [arg EXCEPT ![p] = raw]
                /\ normalized' = [normalized EXCEPT ![p] = n.val]
                /\ json' = [json EXCEPT ![p] = Serialize(n.val)]
                /\ pc' = [pc EXCEPT ![p] = "create_dir_all"]
                /\ UNCHANGED hist
           ELSE /\ hist' = Record(Call(p, "save", raw, Err(n.err), ""))
                /\ UNCHANGED <<arg, normalized, json, pc>>
        /\ UNCHANGED <<cfg, tmp, off, fd>>
        /\ UNCHANGED <<nvars, hvars, faults, limited>>

\* save_config, lines 97-106: normalise, build cfg, serialise
SaveBegin(p, raw) ==
    LET n == normalize_base_url(raw)
    IN  /\ pc[p] = "idle"
        /\ Begin(p)
        /\ pre' = [pre EXCEPT ![p] = cfg]
        /\ IF n.ok
           THEN /\ arg' = [arg EXCEPT ![p] = raw]
                /\ normalized' = [normalized EXCEPT ![p] = n.val]
                /\ json' = [json EXCEPT ![p] = Serialize(n.val)]
                /\ pc' = [pc EXCEPT ![p] = "create_dir_all"]
                /\ UNCHANGED hist
           ELSE /\ hist' = Record(Call(p, "save", raw, Err(n.err), ""))
                /\ UNCHANGED <<arg, normalized, json, pc>>
        /\ UNCHANGED <<dirExists, cfg, tmp, off, fd>>
        /\ UNCHANGED <<nvars, hvars, faults, limited>>

\* atomic_write, line 63: std::fs::create_dir_all(parent)?
CreateDirAll(p) ==
    /\ pc[p] = "create_dir_all"
    /\ \/ /\ dirExists' = TRUE
          /\ Continue(p, "create")
       \/ /\ faults
          /\ Return(p, "save", Err("io error"))
          /\ UNCHANGED dirExists
    /\ UNCHANGED <<cfg, tmp, off, fd, pre>>
    /\ UNCHANGED <<nvars, hvars, faults, limited, begun>>

\* atomic_write, line 66: std::fs::write opens tmp_path (create, truncate)
CreateTmp(p) ==
    /\ pc[p] = "create"
    /\ \/ /\ dirExists
          /\ tmp' = File(<<>>)
          /\ fd' = [fd EXCEPT ![p] = "tmp"]
          /\ Continue(p, "write")
       \/ /\ faults \/ ~dirExists
          /\ Return(p, "save", Err("io error"))
          /\ UNCHANGED <<tmp, fd>>
    /\ UNCHANGED <<dirExists, cfg, off, pre>>
    /\ UNCHANGED <<nvars, hvars, faults, limited, begun>>

\* atomic_write, line 66: one write of std::fs::write's write_all, through
\* the open handle; the handle is closed after the last one
WriteTmp(p) ==
    LET chunk == NextChunk(json[p], off[p])
        end == off[p] + Len(chunk)
    IN  /\ pc[p] = "write"
        /\ \/ /\ tmp' = IF fd[p] = "tmp" THEN File(WriteAt(tmp.data, off[p], chunk))
                        ELSE tmp
              /\ cfg' = IF fd[p] = "cfg" THEN File(WriteAt(cfg.data, off[p], chunk))
                        ELSE cfg
              /\ IF end = Len(json[p])
                 THEN /\ Continue(p, "exists")
                      /\ off' = [off EXCEPT ![p] = 0]
                      /\ fd' = [fd EXCEPT ![p] = "none"]
                 ELSE /\ Continue(p, "write")
                      /\ off' = [off EXCEPT ![p] = end]
                      /\ UNCHANGED fd
           \/ /\ faults
              /\ Return(p, "save", Err("io error"))
              /\ off' = [off EXCEPT ![p] = 0]
              /\ fd' = [fd EXCEPT ![p] = "none"]
              /\ UNCHANGED <<tmp, cfg>>
        /\ UNCHANGED <<dirExists, pre>>
        /\ UNCHANGED <<nvars, hvars, faults, limited, begun>>

\* atomic_write, line 68: if path.exists()
ExistsCheck(p) ==
    /\ pc[p] = "exists"
    /\ Continue(p, IF cfg.exists THEN "remove_file" ELSE "rename")
    /\ UNCHANGED <<dirExists, cfg, tmp, off, fd, pre>>
    /\ UNCHANGED <<nvars, hvars, faults, limited, begun>>

\* atomic_write, line 69: let _ = std::fs::remove_file(path)
RemoveFile(p) ==
    /\ pc[p] = "remove_file"
    /\ \/ /\ cfg.exists
          /\ cfg' = NoFile
          /\ fd' = [q \in Procs |-> IF fd[q] = "cfg" THEN "gone" ELSE fd[q]]
       \/ /\ faults \/ ~cfg.exists
          /\ UNCHANGED <<cfg, fd>>
    /\ Continue(p, "rename")
    /\ UNCHANGED <<dirExists, tmp, off, pre>>
    /\ UNCHANGED <<nvars, hvars, faults, limited, begun>>

\* Rename that copies the temporary file onto the target and leaves it there
Rename_Copy(p) ==
    /\ pc[p] = "rename"
    /\ \/ /\ tmp.exists
          /\ cfg' = tmp
          /\ UNCHANGED tmp
          /\ fd' = [q \in Procs |-> IF fd[q] = "cfg" THEN "gone" ELSE fd[q]]
          /\ Return(p, "save", Ok(normalized[p]))
       \/ /\ faults \/ ~tmp.exists
          /\ Return(p, "save", Err("io error"))
          /\ UNCHANGED <<cfg, tmp, fd>>
    /\ UNCHANGED <<dirExists, off, pre>>
    /\ UNCHANGED <<nvars, hvars, faults, limited, begun>>

\* atomic_write, lines 72-73 and save_config, lines 107-108:
\* std::fs::rename(&tmp_path, path)?; Ok(normalized)
Rename(p) ==
    /\ pc[p] = "rename"
    /\ \/ /\ tmp.exists
          /\ cfg' = tmp
          /\ tmp' = NoFile
          /\ fd' = [q \in Procs |-> CASE fd[q] = "tmp" -> "cfg"
                                      [] fd[q] = "cfg" -> "gone"
                                      [] OTHER -> fd[q]]
          /\ Return(p, "save", Ok(normalized[p]))
       \/ /\ faults \/ ~tmp.exists
          /\ Return(p, "save", Err("io error"))
          /\ UNCHANGED <<cfg, tmp, fd>>
    /\ UNCHANGED <<dirExists, off, pre>>
    /\ UNCHANGED <<nvars, hvars, faults, limited, begun>>

\* load_config, lines 85-88: if !path.exists() { return Ok(None) }
LoadExists(p) ==
    /\ pc[p] = "idle"
    /\ Begin(p)
    /\ pre' = [pre EXCEPT ![p] = cfg]
    /\ IF cfg.exists
       THEN Continue(p, "read")
       ELSE Return(p, "load", OkNone)
    /\ UNCHANGED <<dirExists, cfg, tmp, off, fd>>
    /\ UNCHANGED <<nvars, hvars, faults, limited>>

\* LoadRead that treats a file it cannot parse as no configuration
LoadRead_MalformedAsAbsent(p) ==
    /\ pc[p] = "read"
    /\ IF cfg.exists
       THEN Return(p, "load", IF from_slice(cfg.data).ok THEN from_slice(cfg.data)
                              ELSE OkNone)
       ELSE Return(p, "load", Err("io error"))
    /\ UNCHANGED <<dirExists, cfg, tmp, off, fd, pre>>
    /\ UNCHANGED <<nvars, hvars, faults, limited, begun>>

\* load_config, lines 90-92: std::fs::read, serde_json::from_slice
LoadRead(p) ==
    /\ pc[p] = "read"
    /\ IF cfg.exists
       THEN Return(p, "load", from_slice(cfg.data))
       ELSE Return(p, "load", Err("io error"))
    /\ UNCHANGED <<dirExists, cfg, tmp, off, fd, pre>>
    /\ UNCHANGED <<nvars, hvars, faults, limited, begun>>

\* the process dies in the middle of a call
Crash(p) ==
    /\ pc[p] # "idle"
    /\ Finish(p, IF pc[p] = "read" THEN "load" ELSE "save", Err("crash"), pc[p])
    /\ off' = [off EXCEPT ![p] = 0]
    /\ fd' = [fd EXCEPT ![p] = "none"]
    /\ UNCHANGED <<dirExists, cfg, tmp, pre>>
    /\ UNCHANGED <<nvars, hvars, faults, limited, begun>>

\* calls never overlap: only the processes of SeqProcs make calls
Next ==
    \/ \E p \in SeqProcs, raw \in ConfigRawUrls : SaveBegin(p, raw)
    \/ \E p \in SeqProcs : CreateDirAll(p)
    \/ \E p \in SeqProcs : CreateTmp(p)
    \/ \E p \in SeqProcs : WriteTmp(p)
    \/ \E p \in SeqProcs : ExistsCheck(p)
    \/ \E p \in SeqProcs : RemoveFile(p)
    \/ \E p \in SeqProcs : Rename(p)
    \/ \E p \in SeqProcs : LoadExists(p)
    \/ \E p \in SeqProcs : LoadRead(p)
    \/ \E p \in SeqProcs : Crash(p)

Init == NormIdle /\ HealthIdle /\ ConfigInit

\* Concurrent calls: both processes call save_config and load_config, their
\* filesystem steps interleaved; a filesystem call fails only for what the
\* other process did, and each process begins at most MaxCalls calls.
OldUrl == HTTP \o <<":", "/", "/", "a", "/", "\\", QT, "b">>
SaveArgs(p) ==
    IF p = 1 THEN {HTTP \o <<":", "/", "/", "a">>}
    ELSE {<<" ">> \o HTTPS \o <<":", "/", "/", "a", "/", " ">>}

ConcInit ==
    /\ NormIdle
    /\ HealthIdle
    /\ ConfigIdle
    /\ faults = FALSE
    /\ limited = TRUE
    /\ dirExists \in BOOLEAN
    /\ tmp = NoFile
    /\ cfg \in {NoFile} \cup (IF dirExists THEN {File(Serialize(OldUrl))} ELSE {})
    /\ pre = [p \in Procs |-> cfg]

ConcNext ==
    \/ \E p \in Procs : \E raw \in SaveArgs(p) : SaveBegin(p, raw)
    \/ \E p \in Procs : CreateDirAll(p)
    \/ \E p \in Procs : CreateTmp(p)
    \/ \E p \in Procs : WriteTmp(p)
    \/ \E p \in Procs : ExistsCheck(p)
    \/ \E p \in Procs : RemoveFile(p)
    \/ \E p \in Procs : Rename(p)
    \/ \E p \in Procs : LoadExists(p)
    \/ \E p \in Procs : LoadRead(p)
    \/ \E p \in Procs : Crash(p)

SpecConc == ConcInit /\ [][ConcNext]_vars

Spec == Init /\ [][Next]_vars

----------------------------------------------------------------------------
(* The normaliser as a pure function *)

NormInit ==
    /\ ConfigOff
    /\ HealthIdle
    /\ nraw \in RawUrls
    /\ npc = "start"
    /\ nres = NoResult
    /\ nres2 = NoResult

\* normalize_base_url(raw)
Normalize ==
    /\ npc = "start"
    /\ nres' = normalize_base_url(nraw)
    /\ npc' = IF nres'.ok THEN "once" ELSE "rejected"
    /\ UNCHANGED <<nraw, nres2>>
    /\ UNCHANGED cvars
    /\ UNCHANGED hvars

\* normalize_base_url applied to its own output
NormalizeAgain ==
    /\ npc = "once"
    /\ nres2' = normalize_base_url(nres.val)
    /\ npc' = "twice"
    /\ UNCHANGED <<nraw, nres>>
    /\ UNCHANGED cvars
    /\ UNCHANGED hvars

NormNext == Normalize \/ NormalizeAgain

SpecNorm == NormInit /\ [][NormNext]_vars

HealthSpecInit == NormIdle /\ ConfigOff /\ HealthInit

SpecHealth == HealthSpecInit /\ [][HealthNext]_vars

\* the runtime drives the call on and every request ends, by the client's
\* timeout at the latest
SpecHealthFair == SpecHealth /\ WF_vars(HealthNext)

----------------------------------------------------------------------------
(* Properties *)

SaveSteps == {"create_dir_all", "create", "write", "exists", "remove_file", "rename"}

\* no call is in progress and the last completed call is c
Quiet == \A p \in Procs : pc[p] = "idle"
LastCall == hist[1]

\* C1: if save_config is interrupted at any step before the rename has
\* happened, config.json is exactly what it was before the call: the same
\* content, or still absent.
CrashBeforeRenameKeepsTarget ==
    (Quiet /\ hist # <<>> /\ LastCall.at \in SaveSteps) => cfg = pre[LastCall.p]

\* C2: whenever a probe yields ok = true, check_health returns that probe's
\* result at once and no later candidate is requested.
StopOnSuccess ==
    \A i \in 1..Len(reqs) :
        (reqs[i].done /\ reqs[i].result.ok) =>
            /\ i = Len(reqs)
            /\ hpc = "done"
            /\ hret = HOk(reqs[i].result)

StopOnSuccessWitness ==
    /\ hpc = "done"
    /\ Len(reqs) = 1
    /\ reqs[1].url = base \o API_HEALTH
    /\ reqs[1].result.ok
    /\ hret = HOk(reqs[1].result)

FirstAmbiguous ==
    /\ ~reqs[1].result.ok
    /\ reqs[1].result.status_code \in {Some(404), NoneOpt}

\* C3: the second candidate is requested if and only if the first probe was
\* not ok and its status code was 404 or absent; any other failure status of
\* the first probe is terminal and its result is returned.
ContinueRule ==
    /\ Len(reqs) <= 2
    /\ Len(reqs) = 2 =>
        /\ reqs[1].done
        /\ FirstAmbiguous
        /\ reqs[2].url = base \o BACKEND_API_HEALTH
    /\ (hpc = "done" /\ Len(reqs) >= 1) =>
        /\ Len(reqs) = 2 <=> FirstAmbiguous
        /\ Len(reqs) = 1 => hret = HOk(reqs[1].result)

ContinueRuleWitness ==
    /\ hpc = "done"
    /\ Len(reqs) = 2
    /\ reqs[1].result.status_code = Some(404)
    /\ reqs[2].done

\* C4: for a valid base URL the returned result is the recorded result of
\* the last candidate actually probed.
ResultIsLastProbe ==
    (hpc = "done" /\ hret.ok) =>
        /\ reqs # <<>>
        /\ reqs[Len(reqs)].done
        /\ hret.val = reqs[Len(reqs)].result
        /\ hret.val.request_url = reqs[Len(reqs)].url

ResultIsLastProbeWitness ==
    /\ hpc = "done"
    /\ Len(reqs) = 2
    /\ ~reqs[1].result.ok
    /\ ~reqs[2].result.ok
    /\ reqs[1].result # reqs[2].result
    /\ hret = HOk(reqs[2].result)

\* C5: save_config with a URL the normaliser rejects returns an error and
\* leaves the filesystem (config.json, config.json.tmp, the parent
\* directory) unchanged.
InvalidSaveLeavesFilesystem ==
    [][(/\ hist' # hist
        /\ hist'[1].op = "save"
        /\ hist'[1].at = ""
        /\ ~normalize_base_url(hist'[1].arg).ok)
       => (~hist'[1].ret.ok /\ UNCHANGED fsvars)]_vars

InvalidSaveWitness ==
    /\ Quiet
    /\ hist # <<>>
    /\ LastCall.op = "save"
    /\ ~normalize_base_url(LastCall.arg).ok
    /\ ~LastCall.ret.ok
    /\ ~dirExists

\* C6: a save_config(raw) that returns success returns normalize(raw), and a
\* load_config directly after it returns a present configuration holding
\* that same value.
RoundTrip ==
    /\ (hist # <<>> /\ LastCall.op = "save" /\ LastCall.ret.ok) =>
            LastCall.ret = normalize_base_url(LastCall.arg)
    /\ (hist # <<>> /\ LastCall.op = "load" /\ LastCall.at = ""
            /\ LastCall.prev.op = "save" /\ LastCall.prev.ret.ok) =>
            LastCall.ret = Ok(LastCall.prev.ret.val)

RoundTripWitness ==
    /\ hist # <<>>
    /\ LastCall.op = "load"
    /\ LastCall.prev.op = "save"
    /\ LastCall.prev.ret.ok
    /\ LastCall.ret.some
    /\ \E i \in 1..Len(LastCall.ret.val) : LastCall.ret.val[i] \in {BS, QT}

\* C7: normalize_base_url is idempotent: when it accepts x and returns y, it
\* accepts y and returns exactly y.
NormalizeIdempotent ==
    npc = "twice" => (nres2.ok /\ nres2.val = nres.val)

\* C8: every value normalize_base_url returns has no leading or trailing
\* whitespace and does not end with '/'.
NormalizedCanonical ==
    (npc \in {"once", "twice"}) =>
        /\ nres.val # <<>>
        /\ ~IsWhitespace(Head(nres.val))
        /\ ~IsWhitespace(LastOf(nres.val))
        /\ LastOf(nres.val) # "/"

Returned == hpc = "done" /\ hret.ok

\* C9 as stated: every returned result is either a success with a payload or
\* a failure with an error.
SuccessPayloadOrFailureError ==
    Returned =>
        \/ hret.val.ok /\ hret.val.payload # NoneOpt
        \/ ~hret.val.ok /\ hret.val.error # NoneOpt

\* C9, amended: in every returned result error is present exactly when
\* status_code is absent, and then ok = false and payload is absent; so a
\* success never carries an error and payload and error are never both set.
ErrorIffNoStatus ==
    Returned =>
        /\ hret.val.error # NoneOpt <=> hret.val.status_code = NoneOpt
        /\ hret.val.error # NoneOpt => (~hret.val.ok /\ hret.val.payload = NoneOpt)
        /\ hret.val.ok => hret.val.error = NoneOpt

ErrorIffNoStatusWitness ==
    /\ Returned
    /\ ~hret.val.ok
    /\ hret.val.status_code = Some(500)
    /\ hret.val.payload # NoneOpt
    /\ hret.val.error = NoneOpt

TransportFailed(r) == r.out.kind = "send error" \/ r.out.textErr

\* C10: a probe's status_code is absent if and only if the request failed at
\* the transport level, and then ok = false, payload is absent and error is
\* set; when both candidates fail at the transport level check_health returns
\* only after both have been tried.
NoStatusIffTransportFailure ==
    /\ \A i \in 1..Len(reqs) :
          reqs[i].done =>
            /\ reqs[i].result.status_code = NoneOpt <=> TransportFailed(reqs[i])
            /\ TransportFailed(reqs[i]) =>
                /\ ~reqs[i].result.ok
                /\ reqs[i].result.payload = NoneOpt
                /\ reqs[i].result.error # NoneOpt
    /\ (Returned /\ \A i \in 1..Len(reqs) : TransportFailed(reqs[i])) =>
            Len(reqs) = candidate_count

RequestsInOrder ==
    /\ Len(reqs) <= 2
    /\ Len(reqs) >= 1 => reqs[1].url = base \o API_HEALTH
    /\ Len(reqs) >= 2 => reqs[2].url = base \o BACKEND_API_HEALTH
    /\ \A i \in 1..(Len(reqs) - 1) : reqs[i].done

\* C15: within one check_health call the first request goes to
\* {base}/api/health, {base}/backend/api/health is requested only after the
\* first probe has completed, each candidate is requested at most once, at
\* most two requests are issued, and the call terminates.
SequentialOrderedTerminating ==
    []RequestsInOrder /\ <>(hpc = "done")

SequentialOrderedWitness ==
    /\ hpc = "done"
    /\ Len(reqs) = 2
    /\ reqs[1].done
    /\ reqs[2].done

\* C16: whenever the loop of check_health ends without returning a success,
\* a probe result has been recorded, so the synthetic "unknown error" result
\* is never returned.
FallbackUnreachable ==
    /\ hpc = "after loop" => last # NoneOpt
    /\ Returned => hret.val.error # Some("unknown error")

FallbackUnreachableWitness ==
    /\ Returned
    /\ Len(reqs) = 1
    /\ hret.val.status_code = Some(500)
    /\ last = Some(hret.val)

AllBegun == \A p \in Procs : begun[p] = MaxCalls

\* the complete serialised configurations of the URLs the two processes save
SavedOutputs ==
    {Serialize(normalize_base_url(r).val) : r \in SaveArgs(1) \cup SaveArgs(2)}

\* C12: when two save_config calls with valid URLs run concurrently, once
\* both have finished config.json exists and holds the complete serialised
\* configuration of one of the two normalised URLs.
ConcurrentSavesLastWriterWins ==
    (/\ Quiet
     /\ AllBegun
     /\ hist # <<>>
     /\ LastCall.op = "save" /\ LastCall.at = ""
     /\ LastCall.prev.op = "save" /\ LastCall.prev.ret.err # "crash")
    => (cfg.exists /\ cfg.data \in SavedOutputs)

\* the complete outputs of save_config
CompleteOutputs == {Serialize(u) : u \in ValidUrls}

\* C13: in every reachable state the content of config.json, when the file
\* exists, is the complete output of some save_config call.
TargetNeverPartial ==
    cfg.exists => cfg.data \in CompleteOutputs

\* C17: a load_config that runs concurrently with a single in-progress
\* save_config, when a valid config.json existed before the save started,
\* returns the previously persisted configuration or the newly saved one,
\* never absent and never an error.
LoadDuringSaveSeesOldOrNew ==
    \A p \in Procs, q \in Procs :
        (/\ p # q
         /\ hist # <<>>
         /\ LastCall.p = q /\ LastCall.op = "load" /\ LastCall.at = ""
         /\ pc[p] \in SaveSteps
         /\ pre[p].exists)
        => LastCall.ret \in {from_slice(pre[p].data), Ok(normalized[p])}

LoadReturned == hist # <<>> /\ LastCall.op = "load" /\ LastCall.at = ""

\* a step of p's load_config
LoadStep(p) ==
    \/ pc[p] = "idle" /\ pc'[p] = "read"
    \/ pc[p] = "read" /\ pc'[p] = "idle"
    \/ pc[p] = "idle" /\ hist' # hist /\ hist'[1].p = p /\ hist'[1].op = "load"

\* C14: load_config returns absent exactly when config.json does not exist
\* at the time of the call; when the file exists and its content is not a
\* valid configuration it returns an error; it never modifies the
\* filesystem.
LoadAbsentIffMissing ==
    /\ [](LoadReturned =>
            /\ LastCall.ret = OkNone <=> ~pre[LastCall.p].exists
            /\ (pre[LastCall.p].exists /\ ~from_slice(pre[LastCall.p].data).ok)
                    => ~LastCall.ret.ok)
    /\ [][\A p \in Procs : LoadStep(p) => UNCHANGED fsvars]_vars

LoadMalformedWitness ==
    /\ Quiet
    /\ LoadReturned
    /\ pre[LastCall.p].exists
    /\ cfg = pre[LastCall.p]
    /\ LastCall.ret.err = "json error"

SaveSucceeded == hist # <<>> /\ LastCall.op = "save" /\ LastCall.ret.ok

\* the step in which p's save_config returns the error of the rename
RenameFailed(p) ==
    /\ pc[p] = "rename"
    /\ pc'[p] = "idle"
    /\ hist'[1].at = ""
    /\ ~hist'[1].ret.ok

\* C18: with non-overlapping calls, whenever the last save_config returned
\* success config.json.tmp does not exist and config.json holds exactly the
\* serialised configuration of that call's normalised URL; a save_config
\* that returns the I/O error of the rename leaves config.json.tmp where it
\* is and does not put it in place of the target.
SaveSuccessFinalState ==
    /\ []((Quiet /\ SaveSucceeded) =>
            /\ ~tmp.exists
            /\ LastCall.ret.val = normalize_base_url(LastCall.arg).val
            /\ cfg = File(Serialize(normalize_base_url(LastCall.arg).val)))
    /\ [][\A p \in Procs : RenameFailed(p) => (cfg' = cfg /\ tmp' = tmp)]_vars

SaveSuccessWitness ==
    /\ Quiet
    /\ SaveSucceeded
    /\ LastCall.prev.op = "save"
    /\ LastCall.prev.ret.err = "io error"
    /\ ~tmp.exists
    /\ cfg.exists

====
